---- MODULE Spec2Model ----
(***************************************************************************)
(* Speech front-end of expo_assistant: voice-activity trimming and         *)
(* segmentation (vad.py) and the tiered transcription call (asr.py) with   *)
(* its model registry (model_config.py).                                   *)
(*                                                                         *)
(* PCM is kept as a sequence of 5 ms blocks (160 bytes of 16 kHz 16-bit    *)
(* mono audio); a block is named by its position in the recording, so a    *)
(* buffer is known by which blocks it holds and in which order.  Times are *)
(* exact fractions <<numerator, denominator>> of a second.                 *)
(***************************************************************************)
EXTENDS Integers, Sequences, FiniteSets, TLC

VARIABLES
    webrtcvad,        \* vad.py module global: FALSE when the import failed (None)
    vop,              \* which public VAD function is being called
    vpc,              \* position inside that call
    wav_bytes,        \* argument: the clip
    aggressiveness,   \* argument
    frame_ms,         \* argument
    max_silence_ms,   \* argument (detect_segments only)
    i,                \* loop index over frames
    labels,           \* classifier answers so far, one per frame
    voiced,           \* trim_silence: bytearray of speech frames
    in_speech,        \* detect_segments local
    seg_start,        \* detect_segments local
    silence_cnt,      \* detect_segments local
    segs,             \* detect_segments local
    closed_at,        \* frame indices at which a silence run closed a segment
    vret,             \* value returned by the call (NoValue until it returns)
    verr,             \* exception that left the call ("" if none)
    first_call,       \* <<the finished first trim_silence call>> once its output is trimmed again
    \* ---- asr.py / model_config.py ----
    apc,              \* position inside transcribe_bytes
    audio_bytes,      \* argument: length of the payload in bytes
    lang_hint,        \* argument ("" when empty or None)
    use_vad,          \* argument: <<>> for None, <<b>> otherwise
    beam_size,        \* argument: <<>> for None, <<n>> otherwise
    override,         \* argument: dict (the empty function for None or {})
    yaml,             \* what configs/model_config.yaml holds when it is read
    trim_silence,     \* asr.py module global: FALSE when the import of vad failed (None)
    WhisperModel,     \* model_config.py module global: FALSE when faster_whisper is missing (None)
    existing,         \* model paths that exist on disk
    REGISTRY,         \* model_config._REGISTRY: <<>> for None, <<registry>> otherwise
    processed,        \* "" until set; then "original" or "trimmed"
    tmpfile,          \* the temporary audio file: "none", "exists", "removed", or
                      \* "remove_failed" when os.remove was tried and raised
    name,             \* local
    path_override,    \* local
    beam,             \* local
    cur,              \* local of the fallback loop
    e,                \* local: index in excs of the exception e refers to (0 if none)
    excs,             \* exceptions raised by model attempts, in order
    attempts,         \* model attempts made by this call, in order
    pending,          \* what the try block is leaving with, while finally runs
    aret,             \* <<result>> once returned
    aerr,             \* <<exception>> once raised to the caller
    nloads,           \* number of registry/config loads
    ntrims,           \* number of trim_silence invocations by transcribe_bytes
    \* ---- threads calling ModelRegistry.get_asr_model ----
    threads,          \* the threads that use the registry
    regs,             \* every ModelRegistry object created so far
    regobj,           \* which of them _REGISTRY refers to (REGISTRY holds its value)
    tpc,              \* per thread: position inside get_asr_model
    tself,            \* per thread: the registry object the call runs on (self)
    tkey,             \* per thread: local key
    tmodel,           \* per thread: local model, <<>> until constructed
    ncalls,           \* per thread: calls started
    nreloads,         \* reload_registry calls so far
    built,            \* every WhisperModel constructed, in order
    returned          \* every get_asr_model outcome handed to a caller, in order

vadvars == <<webrtcvad, vop, vpc, wav_bytes, aggressiveness, frame_ms, max_silence_ms,
             i, labels, voiced, in_speech, seg_start, silence_cnt, segs, closed_at,
             vret, verr, first_call>>

asrenv == <<audio_bytes, lang_hint, use_vad, beam_size, override, yaml, trim_silence,
            WhisperModel, existing>>

asrvars == <<apc, asrenv, REGISTRY, processed, tmpfile, name, path_override, beam, cur, e,
             excs, attempts, pending, aret, aerr, nloads, ntrims>>

asrcall == <<apc, processed, tmpfile, name, path_override, beam, cur, e,
             excs, attempts, pending, aret, aerr, nloads, ntrims>>

regvars == <<threads, regs, regobj, tpc, tself, tkey, tmodel, ncalls, nreloads, built, returned>>

vars == <<vadvars, asrvars, regvars>>

(***************************************************************************)
(* Bounds                                                                  *)
(***************************************************************************)
MaxBlocks == 22
MaxAgainBlocks == 8
MaxCalls == 3
MaxReloads == 1

NoValue == [none |-> TRUE]

Min(a, b) == IF a < b THEN a ELSE b
Max(a, b) == IF a > b THEN a ELSE b

(***************************************************************************)
(* Times: exact fractions of a second                                      *)
(***************************************************************************)
Frac(n, d) == <<n, d>>
FracLT(a, b) == a[1] * b[2] < b[1] * a[2]
FracEQ(a, b) == a[1] * b[2] = b[1] * a[2]
FracLE(a, b) == FracLT(a, b) \/ FracEQ(a, b)

(***************************************************************************)
(* WAV buffers                                                             *)
(***************************************************************************)
\* one block: 5 ms of 16 kHz 16-bit mono PCM, in bytes
BlockBytes == ((16000 * 5) \div 1000) * 2

\* RIFF/WAVE header written by wave: RIFF descriptor, fmt chunk, data chunk header
WavHeaderLen == 12 + 24 + 8

PcmByteLen(pcm) == Len(pcm) * BlockBytes

\* wave.getnframes(): data length // (channels * sample width)
NFrames(w) == PcmByteLen(w.pcm) \div (w.ch * w.sw)

\* total size of a buffer in bytes
BufLen(w) == IF w.riff THEN WavHeaderLen + PcmByteLen(w.pcm) + w.extra ELSE w.extra

\* playing time of the clip
ClipDuration(w) == w.dur

RiffClip(ch, sr, sw, pcm, extra) ==
    [riff |-> TRUE, ch |-> ch, sr |-> sr, sw |-> sw, pcm |-> pcm, extra |-> extra,
     dur |-> Frac(PcmByteLen(pcm) \div (ch * sw), sr)]

\* a payload wave.open cannot read (mp3, m4a, garbage): raw bytes and its playing time
RawClip(nbytes, dur) ==
    [riff |-> FALSE, ch |-> 0, sr |-> 0, sw |-> 0, pcm |-> <<>>, extra |-> nbytes, dur |-> dur]

Blocks(n) == [k \in 1..n |-> k]

IsWav16kMono16bit_anyrate(w) ==
    IF w.riff THEN (w.ch = 1 /\ w.sw = 2) ELSE FALSE

IsWav16kMono16bit(w) ==
    IF w.riff THEN (w.ch = 1 /\ w.sr = 16000 /\ w.sw = 2) ELSE FALSE

ReadWavPcm(w) == [sr |-> w.sr, ch |-> w.ch, sw |-> w.sw, pcm |-> w.pcm]

WriteWavPcm(pcm, sr, ch, sw) == RiffClip(ch, sr, sw, pcm, 0)

\* pcm[a:b] of Python, on blocks
PySlice(pcm, a, b) == SubSeq(pcm, a + 1, Min(b, Len(pcm)))

\* int(sr * frame_ms / 1000) * 2
FrameBytes(sr, fms) == ((sr * fms) \div 1000) * 2

FrameBlocks(sr, fms) == FrameBytes(sr, fms) \div BlockBytes

SplitFrames_zeropad(pcm, sr, fms) ==
    LET fb  == FrameBlocks(sr, fms)
        n   == (Len(pcm) + fb - 1) \div fb
        pad(s) == s \o [k \in 1..(fb - Len(s)) |-> 0]
    IN  [k \in 1..n |-> pad(PySlice(pcm, (k - 1) * fb, k * fb))]

SplitFrames_keeplast(pcm, sr, fms) ==
    LET fb  == FrameBlocks(sr, fms)
        n   == (Len(pcm) + fb - 1) \div fb
    IN  [k \in 1..n |-> PySlice(pcm, (k - 1) * fb, k * fb)]

SplitFrames_reversed(pcm, sr, fms) ==
    LET fb  == FrameBlocks(sr, fms)
        n   == Len(pcm) \div fb
    IN  [k \in 1..n |-> PySlice(pcm, (n - k) * fb, (n - k + 1) * fb)]

SplitFrames(pcm, sr, fms) ==
    LET fb  == FrameBlocks(sr, fms)
        n   == (Len(pcm) + fb - 1) \div fb            \* len(range(0, len(pcm), fb))
        all == [k \in 1..n |-> PySlice(pcm, (k - 1) * fb, k * fb)]
    IN  SelectSeq(all, LAMBDA fr : Len(fr) = fb)

\* webrtcvad.Vad(int(aggressiveness)) accepts modes 0..3 only
VadCtorOk(aggr) == aggr \in 0..3

\* len(voiced) < len(pcm) * 0.1  (the float product is exact at every multiple of ten
\* bytes, so the test is the integer one)
OverTrimmed_off(nvoiced, npcm) == FALSE

OverTrimmed(nvoiced, npcm) == 10 * nvoiced < npcm

\* max(1, int(max_silence_ms / frame_ms))
MaxSilenceFrames(msil, fms) == Max(1, msil \div fms)

(***************************************************************************)
(* trim_silence                                                            *)
(***************************************************************************)
FrameMsChoices == {10, 20, 30}
MaxSilenceChoices == {5, 25, 60}
AggressivenessChoices == {2, 7}

Formats == {1, 2} \X {8000, 16000} \X {1, 2}

Clips ==
    {RiffClip(1, 16000, 2, Blocks(n), x) : n \in 0..MaxBlocks, x \in {0, 26}}
      \cup {RiffClip(f[1], f[2], f[3], Blocks(n), 0) :
                f \in Formats \ {<<1, 16000, 2>>}, n \in {0, 1, 8}}
      \cup {RawClip(0, Frac(0, 1)), RawClip(4000, Frac(0, 1)), RawClip(4000, Frac(3, 1))}

Frames == LET r == ReadWavPcm(wav_bytes) IN SplitFrames(r.pcm, r.sr, frame_ms)

Concat(frs) ==
    LET RECURSIVE cat(_)
        cat(k) == IF k = 0 THEN <<>> ELSE cat(k - 1) \o frs[k]
    IN  cat(Len(frs))

VadReturn(v) ==
    /\ vpc' = "done"
    /\ vret' = v
    /\ verr' = ""

VadRaise(ex) ==
    /\ vpc' = "raised"
    /\ vret' = NoValue
    /\ verr' = ex

\* vad.py 63-72
TrimEnter ==
    /\ UNCHANGED <<asrvars, regvars>>
    /\ vop = "trim_silence" /\ vpc = "call"
    /\ IF ~webrtcvad \/ ~IsWav16kMono16bit(wav_bytes)
         THEN VadReturn(wav_bytes) /\ UNCHANGED <<i, labels, voiced>>
         ELSE IF ~VadCtorOk(aggressiveness)
                THEN VadRaise("ValueError") /\ UNCHANGED <<i, labels, voiced>>
                ELSE /\ vpc' = "loop"
                     /\ i' = 0 /\ labels' = <<>> /\ voiced' = <<>>
                     /\ UNCHANGED <<vret, verr>>
    /\ UNCHANGED <<webrtcvad, vop, wav_bytes, aggressiveness, frame_ms, max_silence_ms,
                   in_speech, seg_start, silence_cnt, segs, closed_at, first_call>>

\* vad.py 74-76, one frame; vad.is_speech answers or raises
TrimFrame ==
    /\ UNCHANGED <<asrvars, regvars>>
    /\ vop = "trim_silence" /\ vpc = "loop" /\ i < Len(Frames)
    /\ \/ \E is_sp \in BOOLEAN :
            /\ labels' = Append(labels, is_sp)
            /\ voiced' = IF is_sp THEN voiced \o Frames[i + 1] ELSE voiced
            /\ i' = i + 1
            /\ UNCHANGED <<vpc, vret, verr>>
       \/ /\ VadRaise("ClassifierError")
          /\ UNCHANGED <<i, labels, voiced>>
    /\ UNCHANGED <<webrtcvad, vop, wav_bytes, aggressiveness, frame_ms, max_silence_ms,
                   in_speech, seg_start, silence_cnt, segs, closed_at, first_call>>

\* vad.py 78-82
TrimResult(w, v) ==
    LET r == ReadWavPcm(w)
    IN  IF OverTrimmed(PcmByteLen(v), PcmByteLen(r.pcm))
          THEN w
          ELSE WriteWavPcm(v, r.sr, r.ch, r.sw)

TrimFinish ==
    /\ UNCHANGED <<asrvars, regvars>>
    /\ vop = "trim_silence" /\ vpc = "loop" /\ i = Len(Frames)
    /\ VadReturn(TrimResult(wav_bytes, voiced))
    /\ UNCHANGED <<webrtcvad, vop, wav_bytes, aggressiveness, frame_ms, max_silence_ms,
                   i, labels, voiced,
                   in_speech, seg_start, silence_cnt, segs, closed_at, first_call>>

\* the caller feeds the returned buffer to trim_silence once more
TrimAgain ==
    /\ UNCHANGED <<asrvars, regvars>>
    /\ vop = "trim_silence" /\ vpc = "done" /\ first_call = <<>>
    /\ Len(vret.pcm) <= MaxAgainBlocks
    /\ first_call' = <<[wav_bytes |-> wav_bytes, labels |-> labels, vret |-> vret]>>
    /\ wav_bytes' = vret
    /\ vpc' = "call" /\ vret' = NoValue
    /\ i' = 0 /\ labels' = <<>> /\ voiced' = <<>>
    /\ UNCHANGED <<webrtcvad, vop, aggressiveness, frame_ms, max_silence_ms, verr,
                   in_speech, seg_start, silence_cnt, segs, closed_at>>

(***************************************************************************)
(* detect_segments                                                         *)
(***************************************************************************)
\* vad.py 97-102
PassThroughSegments(w) ==
    LET dur == IF w.riff /\ w.sr # 0 THEN Frac(NFrames(w), w.sr) ELSE Frac(0, 1)
        zero == Frac(0, 1)
    IN  << <<zero, IF FracLT(dur, zero) THEN zero ELSE dur>> >>

\* vad.py 126-129 and 135-138
AppendSegment(sg, start_index, end_index, fms) ==
    LET start_sec == Frac(start_index * fms, 1000)
        end_sec   == Frac(end_index * fms, 1000)
    IN  IF FracLT(start_sec, end_sec) THEN Append(sg, <<start_sec, end_sec>>) ELSE sg

DetectStep_noreset(st, idx, is_sp, fms, msf) ==
    IF is_sp
      THEN [st EXCEPT !.in_speech = TRUE,
                      !.seg_start = IF st.in_speech THEN st.seg_start ELSE idx]
      ELSE IF ~st.in_speech
             THEN st
             ELSE LET cnt == st.silence_cnt + 1
                  IN  IF cnt >= msf
                        THEN [st EXCEPT !.segs = AppendSegment(st.segs, st.seg_start,
                                                               idx - cnt + 1, fms),
                                        !.in_speech = FALSE,
                                        !.silence_cnt = 0]
                        ELSE [st EXCEPT !.silence_cnt = cnt]

DetectStep_endatcurrent(st, idx, is_sp, fms, msf) ==
    IF is_sp
      THEN [st EXCEPT !.in_speech = TRUE,
                      !.seg_start = IF st.in_speech THEN st.seg_start ELSE idx,
                      !.silence_cnt = 0]
      ELSE IF ~st.in_speech
             THEN st
             ELSE LET cnt == st.silence_cnt + 1
                  IN  IF cnt >= msf
                        THEN [st EXCEPT !.segs = AppendSegment(st.segs, st.seg_start,
                                                               idx + 1, fms),
                                        !.in_speech = FALSE,
                                        !.silence_cnt = 0]
                        ELSE [st EXCEPT !.silence_cnt = cnt]

\* vad.py 115-131: one turn of the loop on frame idx with label is_sp
DetectStep(st, idx, is_sp, fms, msf) ==
    IF is_sp
      THEN [st EXCEPT !.in_speech = TRUE,
                      !.seg_start = IF st.in_speech THEN st.seg_start ELSE idx,
                      !.silence_cnt = 0]
      ELSE IF ~st.in_speech
             THEN st
             ELSE LET cnt == st.silence_cnt + 1
                  IN  IF cnt >= msf
                        THEN [st EXCEPT !.segs = AppendSegment(st.segs, st.seg_start,
                                                               idx - cnt + 1, fms),
                                        !.in_speech = FALSE,
                                        !.silence_cnt = 0]
                        ELSE [st EXCEPT !.silence_cnt = cnt]

DetectResult_notail(w, nframes, st, fms) ==
    LET r == ReadWavPcm(w)
    IN  IF st.segs = <<>>
          THEN << <<Frac(0, 1), Frac(PcmByteLen(r.pcm), 2 * r.sr)>> >>
          ELSE st.segs

DetectResult_framedur(w, nframes, st, fms) ==
    LET tail == IF st.in_speech
                  THEN AppendSegment(st.segs, st.seg_start, nframes, fms)
                  ELSE st.segs
    IN  IF tail = <<>>
          THEN << <<Frac(0, 1), Frac(nframes * fms, 1000)>> >>
          ELSE tail

\* vad.py 134-145
DetectResult(w, nframes, st, fms) ==
    LET r    == ReadWavPcm(w)
        tail == IF st.in_speech
                  THEN AppendSegment(st.segs, st.seg_start, nframes, fms)
                  ELSE st.segs
    IN  IF tail = <<>>
          THEN << <<Frac(0, 1), Frac(PcmByteLen(r.pcm), 2 * r.sr)>> >>
          ELSE tail

DetectState == [in_speech |-> in_speech, seg_start |-> seg_start,
                silence_cnt |-> silence_cnt, segs |-> segs]

\* vad.py 95-112
DetectEnter ==
    /\ UNCHANGED <<asrvars, regvars>>
    /\ vop = "detect_segments" /\ vpc = "call"
    /\ IF ~webrtcvad \/ ~IsWav16kMono16bit(wav_bytes)
         THEN VadReturn(PassThroughSegments(wav_bytes)) /\ UNCHANGED <<i, labels>>
         ELSE IF ~VadCtorOk(aggressiveness)
                THEN VadRaise("ValueError") /\ UNCHANGED <<i, labels>>
                ELSE /\ vpc' = "loop"
                     /\ i' = 0 /\ labels' = <<>>
                     /\ UNCHANGED <<vret, verr>>
    /\ UNCHANGED <<webrtcvad, vop, wav_bytes, aggressiveness, frame_ms, max_silence_ms,
                   voiced, in_speech, seg_start, silence_cnt, segs, closed_at, first_call>>

\* vad.py 114-131, one frame
DetectFrame ==
    /\ UNCHANGED <<asrvars, regvars>>
    /\ vop = "detect_segments" /\ vpc = "loop" /\ i < Len(Frames)
    /\ \/ \E is_sp \in BOOLEAN :
            LET st == DetectStep(DetectState, i, is_sp, frame_ms,
                                 MaxSilenceFrames(max_silence_ms, frame_ms))
            IN  /\ labels' = Append(labels, is_sp)
                /\ in_speech' = st.in_speech
                /\ seg_start' = st.seg_start
                /\ silence_cnt' = st.silence_cnt
                /\ segs' = st.segs
                /\ closed_at' = IF in_speech /\ ~st.in_speech
                                  THEN Append(closed_at, i) ELSE closed_at
                /\ i' = i + 1
                /\ UNCHANGED <<vpc, vret, verr>>
       \/ /\ VadRaise("ClassifierError")
          /\ UNCHANGED <<i, labels, in_speech, seg_start, silence_cnt, segs, closed_at>>
    /\ UNCHANGED <<webrtcvad, vop, wav_bytes, aggressiveness, frame_ms, max_silence_ms,
                   voiced, first_call>>

DetectFinish ==
    /\ UNCHANGED <<asrvars, regvars>>
    /\ vop = "detect_segments" /\ vpc = "loop" /\ i = Len(Frames)
    /\ VadReturn(DetectResult(wav_bytes, Len(Frames), DetectState, frame_ms))
    /\ UNCHANGED <<webrtcvad, vop, wav_bytes, aggressiveness, frame_ms, max_silence_ms,
                   i, labels, voiced,
                   in_speech, seg_start, silence_cnt, segs, closed_at, first_call>>

RegIdle ==
    /\ threads = {} /\ regs = <<>> /\ regobj = 0
    /\ tpc = <<>> /\ tself = <<>> /\ tkey = <<>> /\ tmodel = <<>> /\ ncalls = <<>>
    /\ nreloads = 0 /\ built = <<>> /\ returned = <<>>

AsrIdle ==
    /\ RegIdle
    /\ apc = "idle"
    /\ audio_bytes = 0 /\ lang_hint = "" /\ use_vad = <<>> /\ beam_size = <<>>
    /\ override = <<>> /\ yaml = <<>> /\ trim_silence = FALSE /\ WhisperModel = FALSE
    /\ existing = {} /\ REGISTRY = <<>> /\ processed = "" /\ tmpfile = "none"
    /\ name = "" /\ path_override = "" /\ beam = 0 /\ cur = "" /\ e = 0
    /\ excs = <<>> /\ attempts = <<>> /\ pending = <<>> /\ aret = <<>> /\ aerr = <<>>
    /\ nloads = 0 /\ ntrims = 0

InitVad ==
    /\ AsrIdle
    /\ webrtcvad \in BOOLEAN
    /\ vop \in {"trim_silence", "detect_segments"}
    /\ vpc = "call"
    /\ wav_bytes \in Clips
    /\ aggressiveness \in AggressivenessChoices
    /\ frame_ms \in FrameMsChoices
    /\ max_silence_ms \in (IF vop = "detect_segments" THEN MaxSilenceChoices ELSE {600})
    /\ i = 0 /\ labels = <<>> /\ voiced = <<>>
    /\ in_speech = FALSE /\ seg_start = 0 /\ silence_cnt = 0 /\ segs = <<>>
    /\ closed_at = <<>>
    /\ vret = NoValue /\ verr = "" /\ first_call = <<>>

NextVad ==
    \/ TrimEnter
    \/ TrimFrame
    \/ TrimFinish
    \/ TrimAgain
    \/ DetectEnter
    \/ DetectFrame
    \/ DetectFinish

SpecVad == InitVad /\ [][NextVad]_vars

(***************************************************************************)
(* model_config.py: configuration and registry                             *)
(***************************************************************************)
\* Python's  a or b  on strings, None and "" both written ""
PyOr(a, b) == IF a = "" THEN b ELSE a

\* (d or {}).get(k, default)
DictGet(d, k, default) == IF k \in DOMAIN d THEN d[k] ELSE default

\* a configuration value int() accepts (ok) or rejects
Raw(n) == [ok |-> TRUE, val |-> n]
BadRaw == [ok |-> FALSE, val |-> 0]

\* STTConfig with the defaults of the dataclass
STTConfig(model_path, beam_raw, vad) ==
    [model_name |-> "small", model_path |-> model_path, device |-> "cpu",
     compute_type |-> "int8", beam_size |-> beam_raw, use_vad |-> vad,
     vad_aggressiveness |-> Raw(2)]

ModelRegistry(cfg) == [cfg |-> cfg, asr_cache |-> <<>>]

\* ModelRegistry.get_asr_model; ctor_ok: whether WhisperModel(...) would construct
AsrKey(stt, model_name, model_path, device, compute_type) ==
    <<PyOr(model_name, stt.model_name),
      PyOr(device, stt.device),
      PyOr(compute_type, stt.compute_type),
      PyOr(model_path, PyOr(stt.model_path, ""))>>

ModelId(key, exist) == IF key[4] # "" /\ key[4] \in exist THEN key[4] ELSE key[1]

GetAsrModel(reg, whisper, exist, model_name, model_path, device, compute_type, ctor_ok) ==
    LET key == AsrKey(reg.cfg.stt, model_name, model_path, device, compute_type)
        model == [id |-> ModelId(key, exist), key |-> key]
    IN  IF ~whisper
          THEN [ok |-> FALSE, err |-> "RuntimeError", model |-> NoValue, built |-> FALSE,
                reg |-> reg]
          ELSE IF key \in DOMAIN reg.asr_cache
                 THEN [ok |-> TRUE, err |-> "", model |-> reg.asr_cache[key], built |-> FALSE,
                       reg |-> reg]
                 ELSE IF ~ctor_ok
                        THEN [ok |-> FALSE, err |-> "ModelLoadError", model |-> NoValue,
                              built |-> FALSE, reg |-> reg]
                        ELSE [ok |-> TRUE, err |-> "", model |-> model, built |-> TRUE,
                              reg |-> [reg EXCEPT !.asr_cache = (key :> model) @@ @]]

(***************************************************************************)
(* asr.py: transcribe_bytes                                                *)
(***************************************************************************)
TierNames == {"small", "base", "tiny", "medium"}

fallback_medium ==
    [t \in {"medium", "small", "base"} |->
        IF t = "medium" THEN "small" ELSE IF t = "small" THEN "base" ELSE "tiny"]

fallback_reversed == [t \in {"tiny", "base"} |-> IF t = "tiny" THEN "base" ELSE "small"]

\* asr.py 110
fallback == [t \in {"small", "base"} |-> IF t = "small" THEN "base" ELSE "tiny"]

\* asr.py 117: max(1, beam // 2)
HalveBeam_keep(b) == b

HalveBeam(b) == Max(1, b \div 2)

\* what model.transcribe hands back: spans (each with or without no_speech_prob, in
\* hundredths) and info.language ("" when the model reports none)
Span(p) == [has_prob |-> TRUE, prob |-> p]
SpanNoProb == [has_prob |-> FALSE, prob |-> 0]

ModelOutputs ==
    { [spans |-> <<>>, language |-> ""],
      [spans |-> <<Span(10), Span(30)>>, language |-> "en"],
      [spans |-> <<SpanNoProb, Span(150)>>, language |-> ""],
      [spans |-> <<Span(0 - 20), Span(50)>>, language |-> "ko"] }

\* asr.py 48-53: clamp of 1 - p into [0, 1], in hundredths; the mean as a fraction
Conf_noclamp(s) == 100 - s.prob

Conf(s) == Max(0, Min(100, 100 - s.prob))

AvgConf(spans) ==
    LET confs == SelectSeq(spans, LAMBDA s : s.has_prob)
        RECURSIVE sum(_)
        sum(k) == IF k = 0 THEN 0 ELSE sum(k - 1) + Conf(confs[k])
    IN  IF confs = <<>> THEN Frac(0, 1) ELSE Frac(sum(Len(confs)), 100 * Len(confs))

DoTranscribeWithModel_hintfirst(out, hint) ==
    [text     |-> [k \in 1..Len(out.spans) |-> k],
     segments |-> [k \in 1..Len(out.spans) |-> [id |-> k - 1]],
     lang     |-> PyOr(hint, PyOr(out.language, "unknown")),
     avg_conf |-> AvgConf(out.spans)]

\* asr.py 36-60: the dict built from the model's output
DoTranscribeWithModel(out, hint) ==
    [text     |-> [k \in 1..Len(out.spans) |-> k],
     segments |-> [k \in 1..Len(out.spans) |-> [id |-> k - 1]],
     lang     |-> PyOr(out.language, PyOr(hint, "unknown")),
     avg_conf |-> AvgConf(out.spans)]

AsrRaise(ex) ==
    /\ apc' = "raised"
    /\ aerr' = <<ex>>

\* an exception: its type, where it was raised, and (indices into excs) its explicit
\* __cause__ and the exception that was being handled when it was raised (__context__)
Exc(type, origin, cause, context) ==
    [type |-> type, origin |-> origin, cause |-> cause, context |-> context]

Stt == REGISTRY[1].cfg.stt

\* asr.py 78:  not audio_bytes
IsEmpty_never(b) == FALSE

IsEmpty(b) == b = 0

\* asr.py 78-79
Enter ==
    /\ UNCHANGED <<vadvars, regvars>>
    /\ apc = "call"
    /\ IF IsEmpty(audio_bytes)
         THEN AsrRaise(Exc("ValueError", "empty_input", 0, 0))
         ELSE apc' = "registry" /\ UNCHANGED aerr
    /\ UNCHANGED <<asrenv, REGISTRY, processed, tmpfile, name, path_override, beam, cur, e,
                   excs, attempts, pending, aret, nloads, ntrims>>

\* asr.py 81-82, model_config.py 345-352 (load_model_config raises on a file it cannot use)
GetRegistry ==
    /\ UNCHANGED <<vadvars, regvars>>
    /\ apc = "registry"
    /\ IF REGISTRY # <<>>
         THEN apc' = "vad" /\ UNCHANGED <<REGISTRY, nloads, aerr>>
         ELSE /\ nloads' = nloads + 1
              /\ IF yaml = <<>>
                   THEN AsrRaise(Exc("ConfigError", "get_registry", 0, 0)) /\ UNCHANGED REGISTRY
                   ELSE /\ REGISTRY' = <<ModelRegistry([stt |-> yaml[1]])>>
                        /\ apc' = "vad"
                        /\ UNCHANGED aerr
    /\ UNCHANGED <<asrenv, processed, tmpfile, name, path_override, beam, cur, e,
                   excs, attempts, pending, aret, ntrims>>

\* asr.py 85-93: trim_silence returns a trimmed buffer, returns its input, or raises
\* (as does int(vad_aggr_final)); whatever is raised inside the try is logged and dropped
UseVadFinal == IF use_vad = <<>> THEN Stt.use_vad ELSE use_vad[1]

Preprocess ==
    /\ UNCHANGED <<vadvars, regvars>>
    /\ apc = "vad"
    /\ IF UseVadFinal /\ trim_silence
         THEN /\ ntrims' = ntrims + 1
              /\ \E outcome \in {"trimmed", "original", "raise"} :
                    processed' = IF outcome = "trimmed" THEN "trimmed" ELSE "original"
         ELSE /\ processed' = "original"
              /\ UNCHANGED ntrims
    /\ apc' = "tempfile"
    /\ UNCHANGED <<asrenv, REGISTRY, tmpfile, name, path_override, beam, cur, e,
                   excs, attempts, pending, aret, aerr, nloads>>

\* asr.py 95 (31-34): NamedTemporaryFile / write can fail
BytesToTempfile ==
    /\ UNCHANGED <<vadvars, regvars>>
    /\ apc = "tempfile"
    /\ \E ok \in BOOLEAN :
          IF ok
            THEN tmpfile' = "exists" /\ apc' = "params" /\ UNCHANGED aerr
            ELSE AsrRaise(Exc("OSError", "tempfile", 0, 0)) /\ UNCHANGED tmpfile
    /\ UNCHANGED <<asrenv, REGISTRY, processed, name, path_override, beam, cur, e,
                   excs, attempts, pending, aret, nloads, ntrims>>

\* asr.py 102: the value handed to int()
BeamRaw == DictGet(override, "beam_size",
                   IF beam_size = <<>> THEN Stt.beam_size ELSE Raw(beam_size[1]))

\* asr.py 98-103 (float() of the temperature is resolved the same way and not kept here)
ResolveParams ==
    /\ UNCHANGED <<vadvars, regvars>>
    /\ apc = "params"
    /\ name' = DictGet(override, "model_name", Stt.model_name)
    /\ path_override' = DictGet(override, "model_path", Stt.model_path)
    /\ IF BeamRaw.ok
         THEN beam' = BeamRaw.val /\ apc' = "try" /\ UNCHANGED aerr
         ELSE AsrRaise(Exc("ValueError", "beam_size", 0, 0)) /\ UNCHANGED beam
    /\ UNCHANGED <<asrenv, REGISTRY, processed, tmpfile, cur, e,
                   excs, attempts, pending, aret, nloads, ntrims>>

Device == DictGet(override, "device", Stt.device)
CType == DictGet(override, "compute_type", Stt.compute_type)

Attempt(tier, mpath, b, g, run_ok, out) ==
    [tier |-> tier, model_path |-> mpath, beam |-> b,
     model_id |-> IF g.ok THEN g.model.id ELSE "",
     outcome |-> IF ~g.ok THEN "load_failed" ELSE IF run_ok THEN "ok" ELSE "run_failed",
     output |-> IF g.ok /\ run_ok THEN <<out>> ELSE <<>>]

AttemptExc(g, context) ==
    Exc(IF g.ok THEN "ModelRunError" ELSE g.err, "model", 0, context)

\* asr.py 105-108 and 111
FirstAttempt ==
    /\ UNCHANGED <<vadvars, regvars>>
    /\ apc = "try"
    /\ \E ctor_ok \in BOOLEAN, run_ok \in BOOLEAN, out \in ModelOutputs :
          LET g == GetAsrModel(REGISTRY[1], WhisperModel, existing,
                               name, path_override, Device, CType, ctor_ok)
          IN  /\ REGISTRY' = <<g.reg>>
              /\ attempts' = Append(attempts, Attempt(name, path_override, beam, g, run_ok, out))
              /\ IF g.ok /\ run_ok
                   THEN /\ pending' = <<[kind |-> "return",
                                         value |-> DoTranscribeWithModel(out, lang_hint)]>>
                        /\ apc' = "finally"
                        /\ UNCHANGED <<excs, e, cur>>
                   ELSE /\ excs' = Append(excs, AttemptExc(g, 0))
                        /\ e' = Len(excs) + 1
                        /\ cur' = name
                        /\ apc' = "except"
                        /\ UNCHANGED pending
    /\ UNCHANGED <<asrenv, processed, tmpfile, name, path_override, beam,
                   aret, aerr, nloads, ntrims>>

\* asr.py 112-120: one turn of the while loop; anything raised here is raised while the
\* first attempt's exception is being handled
FallbackStep ==
    /\ UNCHANGED <<vadvars, regvars>>
    /\ apc = "except" /\ cur \in DOMAIN fallback
    /\ \E ctor_ok \in BOOLEAN, run_ok \in BOOLEAN, out \in ModelOutputs :
          LET nxt == fallback[cur]
              g == GetAsrModel(REGISTRY[1], WhisperModel, existing,
                               nxt, "", Device, CType, ctor_ok)
          IN  /\ REGISTRY' = <<g.reg>>
              /\ attempts' = Append(attempts, Attempt(nxt, "", HalveBeam(beam), g, run_ok, out))
              /\ IF g.ok /\ run_ok
                   THEN /\ pending' = <<[kind |-> "return",
                                         value |-> DoTranscribeWithModel(out, lang_hint)]>>
                        /\ apc' = "finally"
                        /\ UNCHANGED <<excs, e, cur>>
                   ELSE /\ excs' = Append(excs, AttemptExc(g, 1))
                        /\ e' = Len(excs) + 1
                        /\ cur' = nxt
                        /\ UNCHANGED <<pending, apc>>
    /\ UNCHANGED <<asrenv, processed, tmpfile, name, path_override, beam,
                   aret, aerr, nloads, ntrims>>

\* asr.py 121:  raise RuntimeError(...) from e
RaiseTerminal ==
    /\ UNCHANGED <<vadvars, regvars>>
    /\ apc = "except" /\ cur \notin DOMAIN fallback
    /\ pending' = <<[kind |-> "raise", value |-> Exc("RuntimeError", "terminal", e, 1)]>>
    /\ apc' = "finally"
    /\ UNCHANGED <<asrenv, REGISTRY, processed, tmpfile, name, path_override, beam, cur, e,
                   excs, attempts, aret, aerr, nloads, ntrims>>

\* asr.py 122-126: os.remove may fail; that failure is dropped
Finally ==
    /\ UNCHANGED <<vadvars, regvars>>
    /\ apc = "finally"
    /\ \E removed \in BOOLEAN : tmpfile' = IF removed THEN "removed" ELSE "remove_failed"
    /\ IF pending[1].kind = "return"
         THEN apc' = "returned" /\ aret' = <<pending[1].value>> /\ UNCHANGED aerr
         ELSE AsrRaise(pending[1].value) /\ UNCHANGED aret
    /\ UNCHANGED <<asrenv, REGISTRY, processed, name, path_override, beam, cur, e,
                   excs, attempts, pending, nloads, ntrims>>

Yamls ==
    {<<>>} \cup {<<STTConfig(mp, br, TRUE)>> : mp \in {"", "models/ct2"}, br \in {Raw(5), BadRaw}}

Overrides ==
    {<<>>}
      \cup {("model_name" :> n) : n \in TierNames}
      \cup {("model_name" :> "base") @@ ("model_path" :> "models/alt")}
      \cup {("beam_size" :> Raw(8)), ("beam_size" :> BadRaw)}

VadIdle ==
    /\ webrtcvad = FALSE /\ vop = "none" /\ vpc = "idle"
    /\ wav_bytes = RawClip(0, Frac(0, 1))
    /\ aggressiveness = 2 /\ frame_ms = 30 /\ max_silence_ms = 600
    /\ i = 0 /\ labels = <<>> /\ voiced = <<>>
    /\ in_speech = FALSE /\ seg_start = 0 /\ silence_cnt = 0 /\ segs = <<>>
    /\ closed_at = <<>>
    /\ vret = NoValue /\ verr = "" /\ first_call = <<>>

InitAsr ==
    /\ VadIdle
    /\ RegIdle
    /\ apc = "call"
    /\ audio_bytes \in {0, 1000}
    /\ lang_hint \in {"ko", ""}
    /\ use_vad \in {<<>>, <<FALSE>>}
    /\ beam_size \in {<<>>, <<1>>}
    /\ override \in Overrides
    /\ yaml \in Yamls
    /\ trim_silence \in BOOLEAN
    /\ WhisperModel \in BOOLEAN
    /\ existing \in {{}, {"models/ct2", "models/alt"}}
    /\ REGISTRY = <<>> /\ processed = "" /\ tmpfile = "none"
    /\ name = "" /\ path_override = "" /\ beam = 0 /\ cur = "" /\ e = 0
    /\ excs = <<>> /\ attempts = <<>> /\ pending = <<>> /\ aret = <<>> /\ aerr = <<>>
    /\ nloads = 0 /\ ntrims = 0

NextAsr ==
    \/ Enter
    \/ GetRegistry
    \/ Preprocess
    \/ BytesToTempfile
    \/ ResolveParams
    \/ FirstAttempt
    \/ FallbackStep
    \/ RaiseTerminal
    \/ Finally

SpecAsr == InitAsr /\ [][NextAsr]_vars

\* one call is one synchronous unit of work: it keeps running until it returns or raises
SpecAsrFair == InitAsr /\ [][NextAsr]_vars /\ WF_vars(NextAsr)

(***************************************************************************)
(* model_config.py: get_asr_model called from threads, reload_registry     *)
(* get_asr_model holds no lock; a thread can be preempted between the      *)
(* cache test, the construction and the store.                             *)
(***************************************************************************)
RegThreads == {1, 2}
RegNames == {"small", "base"}

\* model_config.py 235:  key in self._asr_cache
InCache_never(reg, key) == FALSE

InCache(reg, key) == key \in DOMAIN reg.asr_cache

RECURSIVE TotalCalls(_, _)
TotalCalls(n, T) ==
    IF T = {} THEN 0
    ELSE LET t == CHOOSE x \in T : TRUE IN n[t] + TotalCalls(n, T \ {t})

\* the value _REGISTRY holds
RegistryValue(objs, k) == IF k = 0 THEN <<>> ELSE <<objs[k]>>

\* a caller enters get_asr_model on the registry get_registry() hands out;
\* model_config.py 228-234
RegCall(t) ==
    /\ tpc[t] = "idle" /\ TotalCalls(ncalls, threads) < MaxCalls
    /\ \E model_name \in RegNames :
          tkey' = [tkey EXCEPT ![t] = AsrKey(regs[regobj].cfg.stt, model_name, "", "", "")]
    /\ tself' = [tself EXCEPT ![t] = regobj]
    /\ tmodel' = [tmodel EXCEPT ![t] = <<>>]
    /\ ncalls' = [ncalls EXCEPT ![t] = @ + 1]
    /\ tpc' = [tpc EXCEPT ![t] = "lookup"]
    /\ UNCHANGED <<vadvars, asrvars, threads, regs, regobj, nreloads, built, returned>>

\* model_config.py 235-236
RegLookup(t) ==
    /\ tpc[t] = "lookup"
    /\ IF InCache(regs[tself[t]], tkey[t])
         THEN /\ returned' = Append(returned,
                    [thread |-> t, obj |-> tself[t], key |-> tkey[t],
                     serial |-> regs[tself[t]].asr_cache[tkey[t]].serial])
              /\ tpc' = [tpc EXCEPT ![t] = "idle"]
         ELSE /\ tpc' = [tpc EXCEPT ![t] = "construct"]
              /\ UNCHANGED returned
    /\ UNCHANGED <<vadvars, asrvars, threads, regs, regobj, tself, tkey, tmodel, ncalls,
                   nreloads, built>>

RegConstruct_poison(t) ==
    /\ tpc[t] = "construct"
    /\ \E ctor_ok \in BOOLEAN :
          IF ctor_ok
            THEN LET model == [id |-> ModelId(tkey[t], existing), key |-> tkey[t],
                               serial |-> Len(built) + 1]
                 IN  /\ built' = Append(built, [obj |-> tself[t], key |-> tkey[t],
                                                serial |-> model.serial])
                     /\ tmodel' = [tmodel EXCEPT ![t] = <<model>>]
                     /\ tpc' = [tpc EXCEPT ![t] = "store"]
                     /\ UNCHANGED <<returned, regs>>
            ELSE /\ returned' = Append(returned,
                        [thread |-> t, obj |-> tself[t], key |-> tkey[t], serial |-> 0])
                 /\ regs' = [regs EXCEPT ![tself[t]].asr_cache =
                                 (tkey[t] :> [id |-> "", key |-> tkey[t], serial |-> 0]) @@ @]
                 /\ tpc' = [tpc EXCEPT ![t] = "idle"]
                 /\ UNCHANGED <<built, tmodel>>
    /\ UNCHANGED <<vadvars, asrvars, threads, regobj, tself, tkey, ncalls, nreloads>>

\* model_config.py 239-241: WhisperModel(...) constructs a new instance or raises
RegConstruct(t) ==
    /\ tpc[t] = "construct"
    /\ \E ctor_ok \in BOOLEAN :
          IF ctor_ok
            THEN LET model == [id |-> ModelId(tkey[t], existing), key |-> tkey[t],
                               serial |-> Len(built) + 1]
                 IN  /\ built' = Append(built, [obj |-> tself[t], key |-> tkey[t],
                                                serial |-> model.serial])
                     /\ tmodel' = [tmodel EXCEPT ![t] = <<model>>]
                     /\ tpc' = [tpc EXCEPT ![t] = "store"]
                     /\ UNCHANGED returned
            ELSE /\ returned' = Append(returned,
                        [thread |-> t, obj |-> tself[t], key |-> tkey[t], serial |-> 0])
                 /\ tpc' = [tpc EXCEPT ![t] = "idle"]
                 /\ UNCHANGED <<built, tmodel>>
    /\ UNCHANGED <<vadvars, asrvars, threads, regs, regobj, tself, tkey, ncalls, nreloads>>

\* model_config.py 242-243
RegStore(t) ==
    /\ tpc[t] = "store"
    /\ regs' = [regs EXCEPT ![tself[t]].asr_cache = (tkey[t] :> tmodel[t][1]) @@ @]
    /\ REGISTRY' = RegistryValue(regs', regobj)
    /\ returned' = Append(returned, [thread |-> t, obj |-> tself[t], key |-> tkey[t],
                                     serial |-> tmodel[t][1].serial])
    /\ tpc' = [tpc EXCEPT ![t] = "idle"]
    /\ UNCHANGED <<vadvars, asrenv, asrcall, threads, regobj, tself, tkey, tmodel, ncalls,
                   nreloads, built>>

\* model_config.py 354-360: reload_registry, called by a thread that is between calls
ReloadRegistry(t) ==
    /\ tpc[t] = "idle" /\ nreloads < MaxReloads
    /\ regs' = Append(regs, ModelRegistry([stt |-> yaml[1]]))
    /\ regobj' = Len(regs) + 1
    /\ REGISTRY' = RegistryValue(regs', regobj')
    /\ nreloads' = nreloads + 1
    /\ UNCHANGED <<vadvars, asrenv, asrcall, threads, tpc, tself, tkey, tmodel, ncalls,
                   built, returned>>

InitReg(T) ==
    /\ VadIdle
    /\ apc = "idle"
    /\ audio_bytes = 0 /\ lang_hint = "" /\ use_vad = <<>> /\ beam_size = <<>>
    /\ override = <<>> /\ trim_silence = FALSE
    /\ yaml = <<STTConfig("", Raw(5), TRUE)>>
    /\ WhisperModel = TRUE
    /\ existing = {}
    /\ processed = "" /\ tmpfile = "none"
    /\ name = "" /\ path_override = "" /\ beam = 0 /\ cur = "" /\ e = 0
    /\ excs = <<>> /\ attempts = <<>> /\ pending = <<>> /\ aret = <<>> /\ aerr = <<>>
    /\ nloads = 1 /\ ntrims = 0
    /\ threads = T
    /\ regs = <<ModelRegistry([stt |-> yaml[1]])>>
    /\ regobj = 1
    /\ REGISTRY = RegistryValue(regs, regobj)
    /\ tpc = [t \in T |-> "idle"]
    /\ tself = [t \in T |-> 0]
    /\ tkey = [t \in T |-> <<>>]
    /\ tmodel = [t \in T |-> <<>>]
    /\ ncalls = [t \in T |-> 0]
    /\ nreloads = 0 /\ built = <<>> /\ returned = <<>>

NextReg ==
    \/ \E t \in threads : RegCall(t)
    \/ \E t \in threads : RegLookup(t)
    \/ \E t \in threads : RegConstruct(t)
    \/ \E t \in threads : RegStore(t)
    \/ \E t \in threads : ReloadRegistry(t)

\* calls made one after another
InitRegSeq == InitReg({1})

SpecRegSeq == InitRegSeq /\ [][NextReg]_vars

\* calls made from two threads
InitRegConc == InitReg(RegThreads)

SpecRegConc == InitRegConc /\ [][NextReg]_vars

(***************************************************************************)
(* The exceptions an error carries: from its __cause__ (else __context__)  *)
(* onwards, as a traceback shows them                                      *)
(***************************************************************************)
CauseChain(ex) ==
    LET RECURSIVE chain(_, _)
        chain(k, fuel) ==
            IF k = 0 \/ fuel = 0 THEN <<>>
            ELSE <<k>> \o chain(IF excs[k].cause # 0 THEN excs[k].cause ELSE excs[k].context,
                                fuel - 1)
    IN  chain(IF ex.cause # 0 THEN ex.cause ELSE ex.context, Len(excs))

(***************************************************************************)
(* Properties                                                              *)
(***************************************************************************)
TrimDone == vop = "trim_silence" /\ vpc = "done"
DetectDone == vop = "detect_segments" /\ vpc = "done"

\* the frame loop was entered: classifier present, clip eligible, Vad constructed
VadLoopRan == webrtcvad /\ IsWav16kMono16bit(wav_bytes) /\ aggressiveness \in 0..3

FullyVoiced(lbl) == \A k \in 1..Len(lbl) : lbl[k]

\* total byte length of the frames labelled speech
SpeechBytes == Cardinality({k \in 1..Len(labels) : labels[k]}) * (32 * frame_ms)

\* C1: for a clip meeting the VAD precondition, the list detect_segments returns is
\* sorted ascending by start, no two segments overlap, and every segment has
\* end > start.
C1_SegmentsWellFormed ==
    (DetectDone /\ webrtcvad /\ IsWav16kMono16bit(wav_bytes)) =>
        /\ \A k \in 1..Len(vret) : FracLT(vret[k][1], vret[k][2])
        /\ \A k \in 1..(Len(vret) - 1) :
              /\ FracLT(vret[k][1], vret[k + 1][1])
              /\ FracLE(vret[k][2], vret[k + 1][1])

\* C2: transcribe_bytes on an empty payload raises the precondition error before any
\* other step: no registry load, no model attempt, no trimming, no temporary file.
C2_EmptyInputRaisesFirst ==
    (audio_bytes = 0 /\ apc # "call") =>
        /\ apc = "raised"
        /\ aerr[1].type = "ValueError" /\ aerr[1].origin = "empty_input"
        /\ nloads = 0 /\ REGISTRY = <<>>
        /\ attempts = <<>>
        /\ ntrims = 0 /\ processed = ""
        /\ tmpfile = "none"

C2_Witness == audio_bytes = 0 /\ apc = "raised" /\ yaml # <<>> /\ trim_silence /\ WhisperModel

\* the statically configured chain: small, then base, then tiny
NextLowerTier(t) == IF t = "small" THEN "base" ELSE IF t = "base" THEN "tiny" ELSE ""

FirstFailedSecondOk ==
    /\ Len(attempts) >= 2
    /\ attempts[1].outcome # "ok"
    /\ attempts[2].outcome = "ok"

\* C3: when the first requested tier fails and the next lower tier succeeds, that tier
\* is invoked with beam max(1, original_beam // 2), the call returns that invocation's
\* result, and no lower tier is attempted.
C3_FallbackHalvesBeam ==
    FirstFailedSecondOk =>
        /\ attempts[1].tier = name
        /\ attempts[2].tier = NextLowerTier(name)
        /\ attempts[1].beam = beam
        /\ attempts[2].beam = Max(1, beam \div 2)
        /\ Len(attempts) = 2
        /\ apc \in {"finally", "returned"}
        /\ apc = "returned" =>
              aret = <<DoTranscribeWithModel(attempts[2].output[1], lang_hint)>>

C3_Witness ==
    /\ FirstFailedSecondOk /\ apc = "returned"
    /\ attempts[1].outcome = "run_failed" /\ beam = 5 /\ attempts[2].beam = 2
    /\ attempts[2].tier = "base"

\* C4: the result of a successful transcribe_bytes call carries tier_used, the name of
\* the tier whose model invocation produced it.
C4_TierUsed ==
    apc = "returned" =>
        /\ "tier_used" \in DOMAIN aret[1]
        /\ aret[1].tier_used = attempts[Len(attempts)].tier

\* C5: when every tier fails, the terminal error carries one underlying cause per
\* attempted tier.
C5_CauseChainComplete ==
    (apc = "raised" /\ aerr[1].origin = "terminal") =>
        Len(CauseChain(aerr[1])) = Len(attempts)

\* C6: the only failures that reach the caller of transcribe_bytes are the empty-input
\* precondition error and the terminal error after the chain is exhausted.
C6_OnlyTwoFailures ==
    apc = "raised" => aerr[1].origin \in {"empty_input", "terminal"}

\* C7: the buffer trim_silence returns is never longer than its input.
C7_TrimNeverLonger ==
    TrimDone => BufLen(vret) <= BufLen(wav_bytes)

C7_Witness ==
    /\ TrimDone /\ VadLoopRan
    /\ \E k \in 1..Len(labels) : labels[k]
    /\ \E k \in 1..Len(labels) : ~labels[k]
    /\ BufLen(vret) < BufLen(wav_bytes)

\* C8: when the speech frames total less than 10% of the PCM length, trim_silence
\* returns its input unchanged; a trimmed buffer comes back only at 10% or more.
C8_OverTrimGuard ==
    (TrimDone /\ VadLoopRan) =>
        /\ (10 * SpeechBytes < PcmByteLen(wav_bytes.pcm)) => vret = wav_bytes
        /\ (vret # wav_bytes) => 10 * SpeechBytes >= PcmByteLen(wav_bytes.pcm)

C8_Witness ==
    /\ TrimDone /\ VadLoopRan
    /\ SpeechBytes > 0
    /\ 10 * SpeechBytes < PcmByteLen(wav_bytes.pcm)
    /\ vret = wav_bytes

\* C9 as stated: for a fully voiced clip of any PCM length trim_silence returns a
\* buffer as long as its input, on the first application and on the second.
C9_FullyVoicedSameLength ==
    (TrimDone /\ VadLoopRan /\ FullyVoiced(labels)) => BufLen(vret) = BufLen(wav_bytes)

\* C9 amended: for a fully voiced clip the returned PCM is as long as the input PCM when
\* that is a whole number of frames or shorter than one frame (and the buffer as long as
\* the input when the input holds only the 44-byte header and the PCM); a trailing
\* partial frame after a full frame is dropped, so the output is shorter; trimming the
\* output of a fully voiced call again returns a buffer of the same length.
C9_FullyVoicedWholeFrames ==
    (TrimDone /\ VadLoopRan /\ FullyVoiced(labels)) =>
        LET n == Len(wav_bytes.pcm)
            fb == frame_ms \div 5
            whole == (n % fb = 0) \/ (n < fb)
        IN  /\ whole => PcmByteLen(vret.pcm) = PcmByteLen(wav_bytes.pcm)
            /\ (whole /\ wav_bytes.extra = 0) => BufLen(vret) = BufLen(wav_bytes)
            /\ ~whole => BufLen(vret) < BufLen(wav_bytes)
            /\ (first_call # <<>> /\ FullyVoiced(first_call[1].labels))
                  => BufLen(vret) = BufLen(wav_bytes)

C9_Witness ==
    /\ TrimDone /\ VadLoopRan /\ FullyVoiced(labels) /\ Len(labels) >= 1
    /\ first_call # <<>> /\ FullyVoiced(first_call[1].labels)
    /\ BufLen(first_call[1].vret) < BufLen(first_call[1].wav_bytes)
    /\ first_call[1].wav_bytes.extra = 0
    /\ BufLen(vret) = BufLen(wav_bytes)

\* C10: for a clip that fails the VAD precondition, or without a classifier,
\* detect_segments returns exactly the one segment [0.0, clip_duration] and never raises.
C10_PassThroughWholeClip ==
    (vop = "detect_segments" /\ vpc # "call"
        /\ (~webrtcvad \/ ~IsWav16kMono16bit(wav_bytes))) =>
        /\ vpc = "done"
        /\ Len(vret) = 1
        /\ FracEQ(vret[1][1], Frac(0, 1))
        /\ FracEQ(vret[1][2], ClipDuration(wav_bytes))

\* C11: for a clip that fails the VAD precondition, or without a classifier,
\* trim_silence returns its input unchanged, classifies no frame and does not raise.
C11_TrimPassThrough ==
    (vop = "trim_silence" /\ vpc # "call"
        /\ (~webrtcvad \/ ~(wav_bytes.riff /\ wav_bytes.ch = 1
                             /\ wav_bytes.sr = 16000 /\ wav_bytes.sw = 2))) =>
        /\ vpc = "done"
        /\ vret = wav_bytes
        /\ labels = <<>>

C11_Witness ==
    /\ TrimDone /\ webrtcvad /\ first_call = <<>>
    /\ wav_bytes.riff /\ wav_bytes.sr = 8000 /\ wav_bytes.ch = 1 /\ wav_bytes.sw = 2
    /\ Len(wav_bytes.pcm) >= 1
    /\ vret = wav_bytes

\* the output of the model invocation that produced the returned result
UsedOutput == attempts[Len(attempts)].output[1]

\* mean over the spans that report a probability of 1 - clamp(p, 0, 1), in hundredths
ExpectedConf(spans) ==
    LET with == SelectSeq(spans, LAMBDA s : s.has_prob)
        clamp(p) == IF p < 0 THEN 0 ELSE IF p > 100 THEN 100 ELSE p
        RECURSIVE total(_)
        total(k) == IF k = 0 THEN 0 ELSE total(k - 1) + (100 - clamp(with[k].prob))
    IN  IF with = <<>> THEN Frac(0, 1) ELSE Frac(total(Len(with)), 100 * Len(with))

\* C12: the aggregate confidence is the mean of 1 - clamp(p, 0, 1) over the spans that
\* report p (0.8 for [0.1, 0.3]), exactly 0.0 when no span reports one, and within [0, 1].
C12_AggregateConfidence ==
    apc = "returned" =>
        LET c == aret[1].avg_conf
            spans == UsedOutput.spans
        IN  /\ FracEQ(c, ExpectedConf(spans))
            /\ (spans = <<Span(10), Span(30)>>) => FracEQ(c, Frac(8, 10))
            /\ (\A k \in 1..Len(spans) : ~spans[k].has_prob) => c = Frac(0, 1)
            /\ FracLE(Frac(0, 1), c) /\ FracLE(c, Frac(1, 1))

C12_Witness ==
    /\ apc = "returned"
    /\ UsedOutput.spans = <<SpanNoProb, Span(150)>>
    /\ FracEQ(aret[1].avg_conf, Frac(0, 1))

\* C16: a classifier exception while trim_silence classifies frames is caught inside
\* trim_silence, which then returns the clip unchanged.
C16_TrimCatchesClassifier ==
    vop = "trim_silence" => ~(vpc = "raised" /\ verr = "ClassifierError")

\* C17: a classifier exception, at creation or on a frame, is caught inside
\* detect_segments, which then returns the whole-clip segment.
C17_DetectCatchesClassifier ==
    vop = "detect_segments" => vpc # "raised"

\* C18: the language of a result is the model-reported one, else the caller's hint when
\* non-empty, else "unknown".
C18_Language ==
    apc = "returned" =>
        aret[1].lang = (IF UsedOutput.language # "" THEN UsedOutput.language
                        ELSE IF lang_hint # "" THEN lang_hint
                        ELSE "unknown")

C18_Witness ==
    /\ apc = "returned"
    /\ UsedOutput.language = "en" /\ lang_hint = "ko"
    /\ aret[1].lang = "en"

\* C19: each advance of the fallback chain halves the beam of the preceding attempt with
\* a floor of 1: max(1, b // 2) on the first fallback, max(1, b // 4) on the second.
C19_BeamHalvedEachAdvance ==
    /\ Len(attempts) >= 2 => attempts[2].beam = Max(1, beam \div 2)
    /\ Len(attempts) >= 3 => attempts[3].beam = Max(1, beam \div 4)

\* C15: on every exit of transcribe_bytes taken after the temporary file was created,
\* its removal has been carried out (a removal that fails is dropped, not raised).
C15_TempFileReleased ==
    (apc \in {"returned", "raised"} /\ tmpfile # "none") =>
        tmpfile \in {"removed", "remove_failed"}

ChainRank(t) == IF t = "small" THEN 3 ELSE IF t = "base" THEN 2 ELSE IF t = "tiny" THEN 1 ELSE 0

AttemptsDescend ==
    /\ Len(attempts) <= 3
    /\ \A a \in 1..Len(attempts), b \in 1..Len(attempts) :
          a < b => ChainRank(attempts[b].tier) < ChainRank(attempts[a].tier)
    /\ \A a \in 1..(Len(attempts) - 1) : attempts[a + 1].tier = NextLowerTier(attempts[a].tier)
    /\ \A a \in 1..Len(attempts) : attempts[a].tier = "tiny" => a = Len(attempts)

AsrEnded ==
    \/ apc = "returned"
    \/ apc = "raised" /\ aerr[1].origin = "terminal"

\* C20: within one call the tiers are attempted in strictly descending chain order, each
\* at most once, no attempt follows the lowest tier, there are at most 3 attempts, and a
\* call that has reached its first attempt ends in a result or in the terminal error.
C20_DescendingAndTerminates ==
    /\ []AttemptsDescend
    /\ (apc = "try") ~> AsrEnded

C20_Witness ==
    /\ apc = "raised" /\ aerr[1].origin = "terminal"
    /\ Len(attempts) = 3
    /\ attempts[1].tier = "small" /\ attempts[2].tier = "base" /\ attempts[3].tier = "tiny"

OncePerKey ==
    \A a \in 1..Len(built), b \in 1..Len(built) :
        (built[a].obj = built[b].obj /\ built[a].key = built[b].key) => a = b

SameInstancePerKey ==
    \A a \in 1..Len(returned), b \in 1..Len(returned) :
        (/\ returned[a].obj = returned[b].obj /\ returned[a].key = returned[b].key
         /\ returned[a].serial # 0 /\ returned[b].serial # 0)
            => returned[a].serial = returned[b].serial

\* C13: over sequential get_asr_model calls on one registry a model is constructed at
\* most once per key and every later request with that key gets the cached instance,
\* until the registry is reloaded.
C13_ConstructedOncePerKey ==
    /\ OncePerKey
    /\ SameInstancePerKey
    /\ \A a \in 1..Len(returned) :
          returned[a].serial # 0 =>
              \E b \in 1..Len(built) :
                  /\ built[b].serial = returned[a].serial
                  /\ built[b].obj = returned[a].obj /\ built[b].key = returned[a].key

C13_Witness ==
    /\ Len(built) = 2 /\ built[1].key = built[2].key /\ built[1].obj # built[2].obj
    /\ \E a \in 1..Len(returned), b \in 1..Len(returned) :
          /\ a < b /\ returned[a].obj = 1 /\ returned[b].obj = 1
          /\ returned[a].key = returned[b].key
          /\ returned[a].serial = 1 /\ returned[b].serial = 1

\* C14: under any interleaving of concurrent get_asr_model calls with one key, the model
\* for that key is constructed at most once and all callers receive the same instance.
C14_ExclusivePerKey ==
    \A t \in threads, u \in threads :
        \A a \in 1..Len(returned), b \in 1..Len(returned) :
            (/\ returned[a].thread = t /\ returned[b].thread = u
             /\ returned[a].obj = returned[b].obj /\ returned[a].key = returned[b].key
             /\ returned[a].serial # 0 /\ returned[b].serial # 0)
                => /\ returned[a].serial = returned[b].serial
                   /\ Cardinality({k \in 1..Len(built) :
                                      /\ built[k].obj = returned[a].obj
                                      /\ built[k].key = returned[a].key}) = 1

\* number of consecutive non-speech labels that end at position p of lbl (1-based)
SilenceRun(lbl, p) ==
    LET RECURSIVE run(_)
        run(k) == IF k = 0 \/ lbl[k] THEN 0 ELSE 1 + run(k - 1)
    IN  run(p)

CeilDiv(a, b) == (a + b - 1) \div b

\* C21: the detector leaves IN_SPEECH after max(1, ceil(max_silence_ms / frame_ms))
\* consecutive non-speech frames, also when max_silence_ms is no multiple of frame_ms.
C21_CeilThreshold ==
    vop = "detect_segments" =>
        \A k \in 1..Len(closed_at) :
            SilenceRun(labels, closed_at[k] + 1) = Max(1, CeilDiv(max_silence_ms, frame_ms))

\* C22: a segment closed by a silence run ends at the first non-speech frame of that run
\* (current index - silence_count + 1); after the transition the detector is out of
\* speech with silence_count 0, and it stays 0 while out of speech.
C22_CloseExcludesSilence ==
    vop = "detect_segments" =>
        /\ Len(segs) = Len(closed_at)
        /\ \A k \in 1..Len(closed_at) :
              LET c    == closed_at[k]
                  endi == c - SilenceRun(labels, c + 1) + 1
              IN  /\ FracEQ(segs[k][2], Frac(endi * frame_ms, 1000))
                  /\ endi >= 1 /\ labels[endi] /\ ~labels[endi + 1]
                  /\ \A j \in (endi + 1)..(c + 1) : ~labels[j]
        /\ (vpc = "loop" /\ ~in_speech) => silence_cnt = 0
        /\ (closed_at # <<>> /\ closed_at[Len(closed_at)] = i - 1 /\ vpc = "loop")
              => (~in_speech /\ silence_cnt = 0)

C22_Witness ==
    /\ DetectDone /\ Len(closed_at) = 2
    /\ SilenceRun(labels, closed_at[1] + 1) >= 2
    /\ Len(labels) > closed_at[2] + 1 /\ ~labels[Len(labels)]

\* number of full frames of the clip: whole multiples of frame_ms in the decoded PCM
FullFrames == PcmByteLen(wav_bytes.pcm) \div (32 * frame_ms)

\* lbl is k non-speech labels followed by speech labels up to the end
SilenceThenSpeech(lbl, k) ==
    /\ k < Len(lbl)
    /\ \A j \in 1..Len(lbl) : lbl[j] <=> (j > k)

\* C23: when the frame stream ends in speech exactly one trailing segment is appended,
\* from seg_start to the number of full frames; k non-speech frames followed by m >= 1
\* speech frames up to the end give the one segment [k * frame_ms, (k + m) * frame_ms] ms.
C23_TrailingSegment ==
    (DetectDone /\ VadLoopRan /\ in_speech) =>
        /\ Len(vret) = Len(segs) + 1
        /\ \A k \in 1..Len(segs) : vret[k] = segs[k]
        /\ FracEQ(vret[Len(vret)][1], Frac(seg_start * frame_ms, 1000))
        /\ FracEQ(vret[Len(vret)][2], Frac(FullFrames * frame_ms, 1000))
        /\ \A k \in 0..Len(labels) :
              SilenceThenSpeech(labels, k) =>
                  /\ Len(vret) = 1
                  /\ FracEQ(vret[1][1], Frac(k * frame_ms, 1000))
                  /\ FracEQ(vret[1][2], Frac(Len(labels) * frame_ms, 1000))

C23_Witness ==
    /\ DetectDone /\ VadLoopRan /\ in_speech
    /\ Len(labels) >= 4 /\ SilenceThenSpeech(labels, 2)
    /\ Len(vret) = 1
    /\ FracEQ(vret[1][1], Frac(2 * frame_ms, 1000))

\* C24: when no frame of an eligible clip is labelled speech, detect_segments returns the
\* one segment [0.0, d], d = decoded sample count / sample rate, not cut to whole frames.
C24_NoSpeechWholeClip ==
    (DetectDone /\ VadLoopRan /\ \A k \in 1..Len(labels) : ~labels[k]) =>
        /\ Len(vret) = 1
        /\ FracEQ(vret[1][1], Frac(0, 1))
        /\ FracEQ(vret[1][2], Frac(PcmByteLen(wav_bytes.pcm) \div 2, 16000))

C24_Witness ==
    /\ DetectDone /\ VadLoopRan /\ Len(labels) >= 1 /\ \A k \in 1..Len(labels) : ~labels[k]
    /\ Len(vret) = 1
    /\ FracLT(Frac(Len(labels) * frame_ms, 1000), vret[1][2])

\* the PCM of the full frames of pcm whose label in lbl is speech, in clip order; a frame
\* is fb consecutive 5 ms blocks
SpeechFramesPcm(pcm, lbl, fb) ==
    LET RECURSIVE upto(_)
        upto(k) == IF k = 0 THEN <<>>
                   ELSE upto(k - 1) \o (IF lbl[k] THEN [j \in 1..fb |-> pcm[(k - 1) * fb + j]]
                                                  ELSE <<>>)
    IN  upto(Len(lbl))

\* C25: a trimmed buffer holds exactly the speech-labelled full frames in their original
\* order (nothing reordered, duplicated or altered, no non-speech frame, no trailing
\* partial frame), under the original sample rate, channel count and sample width.
C25_TrimmedIsSpeechFrames ==
    (TrimDone /\ VadLoopRan /\ ~(10 * SpeechBytes < PcmByteLen(wav_bytes.pcm))) =>
        /\ Len(labels) = FullFrames
        /\ vret.riff
        /\ vret.pcm = SpeechFramesPcm(wav_bytes.pcm, labels, frame_ms \div 5)
        /\ vret.sr = wav_bytes.sr /\ vret.ch = wav_bytes.ch /\ vret.sw = wav_bytes.sw

C25_Witness ==
    /\ TrimDone /\ VadLoopRan /\ first_call = <<>>
    /\ Len(labels) >= 3 /\ labels[1] /\ ~labels[2] /\ labels[3]
    /\ Len(wav_bytes.pcm) > Len(labels) * (frame_ms \div 5)
    /\ vret.pcm = SpeechFramesPcm(wav_bytes.pcm, labels, frame_ms \div 5)
    /\ Len(vret.pcm) = 2 * (frame_ms \div 5)

\* frame index a returned time stands for
FrameIndex(t) == (t[1] * 1000) \div (t[2] * frame_ms)

\* n consecutive frames are at least max(1, max_silence_ms / frame_ms) frames
ReachesThreshold(n) == n >= 1 /\ n * frame_ms >= max_silence_ms

\* the frame-based path returned segments it built from the frames
FrameBasedResult == DetectDone /\ VadLoopRan /\ \E k \in 1..Len(labels) : labels[k]

\* C26: in the frame-based result any two consecutive segments are separated by at least
\* max(1, max_silence_ms / frame_ms) consecutive non-speech frames, and no segment
\* contains a run of that many consecutive non-speech frames.
C26_BoundedBySilence ==
    FrameBasedResult =>
        /\ \A k \in 1..(Len(vret) - 1) :
              LET en == FrameIndex(vret[k][2])
                  st == FrameIndex(vret[k + 1][1])
              IN  /\ ReachesThreshold(st - en)
                  /\ \A j \in (en + 1)..st : ~labels[j]
        /\ \A k \in 1..Len(vret) :
              \A a \in (FrameIndex(vret[k][1]) + 1)..FrameIndex(vret[k][2]) :
                  \A b \in a..FrameIndex(vret[k][2]) :
                      (\A j \in a..b : ~labels[j]) => ~ReachesThreshold(b - a + 1)

\* the returned segments that hold frame j (1-based position in labels)
SegmentsHolding(j) ==
    {k \in 1..Len(vret) : FrameIndex(vret[k][1]) + 1 <= j /\ j <= FrameIndex(vret[k][2])}

\* C27: in the frame-based result every speech-labelled frame lies inside exactly one
\* returned segment, and every returned segment starts at a speech-labelled frame.
C27_SpeechCovered ==
    FrameBasedResult =>
        /\ \A j \in 1..Len(labels) : labels[j] => Cardinality(SegmentsHolding(j)) = 1
        /\ \A k \in 1..Len(vret) :
              /\ FrameIndex(vret[k][1]) + 1 \in 1..Len(labels)
              /\ labels[FrameIndex(vret[k][1]) + 1]

C27_Witness ==
    /\ FrameBasedResult /\ Len(vret) = 2 /\ ~in_speech
    /\ ~labels[1] /\ max_silence_ms > frame_ms
    /\ \E j \in 2..(Len(labels) - 1) :
          labels[j - 1] /\ ~labels[j] /\ labels[j + 1] /\ SegmentsHolding(j) = {1}

\* C28: a fallback attempt loads the model named by the fallback tier; the configured
\* model path (or the failed tier's path) is not reused as the lower tier's model
\* identity, so a fallback never loads again the model that just failed.
C28_FallbackLoadsTierModel ==
    \A a \in 2..Len(attempts) :
        attempts[a].outcome # "load_failed" =>
            /\ attempts[a].model_id = attempts[a].tier
            /\ attempts[a].model_id # attempts[a - 1].model_id

\* C29: when the requested tier has no successor in the fallback map (tiny, or a name
\* outside small/base), a failed first attempt raises the terminal error after exactly
\* one model attempt and no fallback tier is tried.
C29_NoSuccessorNoFallback ==
    (name \notin {"small", "base"} /\ Len(attempts) >= 1 /\ attempts[1].outcome # "ok") =>
        /\ Len(attempts) = 1
        /\ attempts[1].tier = name
        /\ apc \in {"except", "finally", "raised"}
        /\ apc = "finally" =>
              /\ pending[1].kind = "raise"
              /\ pending[1].value.type = "RuntimeError"
              /\ pending[1].value.origin = "terminal"
              /\ pending[1].value.cause = 1
        /\ apc = "raised" => aerr[1].type = "RuntimeError" /\ aerr[1].origin = "terminal"

C29_Witness ==
    /\ apc = "raised" /\ aerr[1].origin = "terminal"
    /\ name = "medium"
    /\ Len(attempts) = 1 /\ attempts[1].outcome = "run_failed"

\* the call of thread t ends in this step with the constructor's error
ConstructionFails(t) == tpc[t] = "construct" /\ tpc'[t] = "idle"

\* every outcome so far for this registry object and key was a failed construction
OnlyFailedSoFar(obj, key) ==
    /\ \E a \in 1..Len(returned) :
          returned[a].obj = obj /\ returned[a].key = key /\ returned[a].serial = 0
    /\ \A a \in 1..Len(returned) :
          (returned[a].obj = obj /\ returned[a].key = key) => returned[a].serial = 0

\* C30: when constructing the model for a key fails inside get_asr_model the error goes
\* to the caller and the instance cache is left as it was (no entry for the key, the
\* other entries untouched), so a later request for the key constructs again.
C30_FailedConstructionNotCached ==
    /\ [][\A t \in threads :
            ConstructionFails(t) =>
                /\ regs' = regs /\ REGISTRY' = REGISTRY
                /\ tkey[t] \notin DOMAIN regs'[tself[t]].asr_cache
                /\ returned' = Append(returned, [thread |-> t, obj |-> tself[t],
                                                 key |-> tkey[t], serial |-> 0])]_vars
    /\ [][\A t \in threads :
            (tpc[t] = "lookup" /\ tpc'[t] # "lookup" /\ OnlyFailedSoFar(tself[t], tkey[t]))
                => tpc'[t] = "construct"]_vars

C30_Witness ==
    /\ Len(returned) >= 2 /\ Len(built) = 1
    /\ returned[1].serial = 0 /\ returned[2].serial = 1
    /\ returned[1].obj = returned[2].obj /\ returned[1].key = returned[2].key
    /\ Len(regs) = 1 /\ DOMAIN regs[1].asr_cache = {returned[1].key}

====
